---- MODULE Spec2Model ----
(***************************************************************************)
(* Model of pandapower/control/util/auxiliary.py: the controller query     *)
(* functions, the duplicate-controller policy functions and the            *)
(* tap-characteristic functions.  Every action is one call of a function   *)
(* of the file on the network `net`; `pre` is the network as it was when   *)
(* the call started and `call` records the call's arguments and outcome.   *)
(* Index lists are modelled by the set of their elements.                  *)
(***************************************************************************)
EXTENDS Integers, Sequences, FiniteSets, TLC

VARIABLES net, pre, call

vars == <<net, pre, call>>

\* ------------------------------------------------------------- bounds
\* controllers in the collection at construction
MaxCtrl == 2
\* keys in a parameter dict
MaxKeys == 2
\* entries of trafo_index, x_points and y_points
MaxLen == 2
\* entries the characteristic registry grows to
MaxChar == 3

\* ------------------------------------------------------------- values
\* An attribute or parameter value: a scalar, or a one-dimensional pandas
\* Index of scalars.  A scalar n is held as <<n>>.
Scalar(n) == [kind |-> "scalar", val |-> <<n>>]

Index(s) == [kind |-> "index", val |-> s]

set(v) == {v.val[i] : i \in 1..Len(v.val)}

\* toolbox.ensure_iterability: a scalar becomes a one-element list, a
\* sequence stays as it is
ensure_iterability(v) == IF v.kind = "scalar" THEN Index(<<v.val[1]>>) ELSE v

\* `a == b` raises ValueError ("Lengths must match to compare")
EqRaises(a, b) == a.kind = "index" /\ b.kind = "index" /\ Len(a.val) # Len(b.val)

\* the value of `a == b` when it does not raise: one bool for two scalars,
\* otherwise the element-wise array (a scalar is broadcast)
EqValue(a, b) ==
    IF a.kind = "scalar" /\ b.kind = "scalar" THEN <<a.val[1] = b.val[1]>>
    ELSE IF b.kind = "scalar" THEN [i \in 1..Len(a.val) |-> a.val[i] = b.val[1]]
    ELSE IF a.kind = "scalar" THEN [i \in 1..Len(b.val) |-> a.val[1] = b.val[i]]
    ELSE [i \in 1..Len(a.val) |-> a.val[i] = b.val[i]]

\* bool(x) raises ValueError: the truth value of an array with more than one
\* element is ambiguous
BoolRaises(x) == Len(x) > 1

\* lines 82-88: the three-tier comparison of one attribute with its parameter
AttributeMatch(attr, param) ==
    IF ~EqRaises(attr, param) /\ ~BoolRaises(EqValue(attr, param))
    THEN EqValue(attr, param)[1]
    ELSE IF ~EqRaises(attr, param)
    THEN \A i \in 1..Len(EqValue(attr, param)) : EqValue(attr, param)[i]
    ELSE (set(attr) \cap set(param)) # {}

\* ------------------------------------------------------------- strings
\* str.lower() on the characters the controller names are written in
LowerChar(c) ==
    CASE c = "C" -> "c"
      [] c = "T" -> "t"
      [] c = "X" -> "x"
      [] OTHER -> c

lower(s) == [i \in 1..Len(s) |-> LowerChar(s[i])]

\* s.split(" ")[0]: the characters before the first space
FirstToken(s) ==
    LET spaces == {i \in 1..Len(s) : s[i] = " "}
    IN IF spaces = {} THEN s
       ELSE SubSeq(s, 1, (CHOOSE i \in spaces : \A j \in spaces : i <= j) - 1)

\* ------------------------------------------------------------- classes
\* the classes a class is an instance of (itself and its bases)
Mro(cls) ==
    CASE cls = "ConstControl" -> {"ConstControl", "Controller"}
      [] cls = "TrafoController" -> {"TrafoController", "Controller"}
      [] OTHER -> {cls}

isinstance(obj, cls) == cls \in Mro(obj.cls)

\* ------------------------------------------------------------- controllers
\* A controller object: its class, its string form and its __dict__.
ControllerObjects ==
    { [cls |-> "ConstControl", str |-> <<"C", "c", " ", "x">>,
       dict |-> ("element_index" :> Index(<<1, 2>>) @@ "element" :> Scalar(1)
                 @@ "variable" :> Scalar(1))],
      [cls |-> "ConstControl", str |-> <<"C", "c">>,
       dict |-> ("element_index" :> Index(<<3>>) @@ "element" :> Scalar(2)
                 @@ "variable" :> Scalar(1))],
      [cls |-> "TrafoController", str |-> <<"T", "c", " ", "x">>,
       dict |-> ("element_index" :> Scalar(1) @@ "element" :> Scalar(1))],
      [cls |-> "Controller", str |-> <<" ", "C", "c">>,
       dict |-> ("variable" :> Scalar(2))],
      [cls |-> "Controller", str |-> <<"c", "C">>,
       dict |-> ("element_index" :> Index(<<1, 3>>) @@ "variable" :> Scalar(1))] }

\* the columns of net.controller
ControllerColumns == {"object", "in_service", "order"}

\* the rows of net.controller: the controllers whose string form is the bare
\* class name are out of service, trafo controllers run in a later order
ControllerRows ==
    {[object |-> o, in_service |-> IF Len(o.str) = 2 THEN 0 ELSE 1,
      order |-> IF o.cls = "TrafoController" THEN 1 ELSE 0] :
        o \in ControllerObjects}

\* ------------------------------------------------------------- inputs
NoType == [kind |-> "none", cls |-> "", typename |-> <<>>]

ClassType(c) == [kind |-> "class", cls |-> c, typename |-> <<>>]

StrType(s) == [kind |-> "str", cls |-> "", typename |-> s]

CtrlTypes ==
    {NoType, ClassType("Controller"), ClassType("ConstControl"),
     StrType(<<"C", "C">>), StrType(<<"T", "c">>)}

\* the values asked for, per key
KeyValues(key) ==
    CASE key = "in_service" -> {Scalar(1)}
      [] key = "order" -> {Scalar(0)}
      [] key = "element_index" -> {Index(<<1, 2>>), Index(<<3>>)}
      [] key = "element" -> {Scalar(1)}
      [] key = "variable" -> {Scalar(1)}

AttributeKeys == {"element_index", "element", "variable"}

ParameterKeys == {"in_service", "order"} \cup AttributeKeys

keys(parameters) == {parameters[k].key : k \in 1..Len(parameters)}

\* parameters[key] of a dict held as the list of its items
Lookup(parameters, key) ==
    parameters[CHOOSE k \in 1..Len(parameters) : parameters[k].key = key].val

Items(K) == UNION {{[key |-> k, val |-> v] : v \in KeyValues(k)} : k \in K}

\* the dicts of at most MaxKeys items over the keys K, in every insertion order
Dicts(K) ==
    {p \in UNION {[1..n -> Items(K)] : n \in 0..MaxKeys} :
        \A i, j \in 1..Len(p) : p[i].key = p[j].key => i = j}

\* the `parameters` / `matching_params` argument: None or a dict
NoParameters == [isdict |-> FALSE, items |-> <<>>]

ParametersArgs ==
    {NoParameters} \cup {[isdict |-> TRUE, items |-> p] : p \in Dicts(ParameterKeys)}

\* the lists holding each element of the set S once
Orderings(S) ==
    {q \in [1..Cardinality(S) -> S] : \A i, j \in DOMAIN q : q[i] = q[j] => i = j}

\* ------------------------------------------------------------- queries
\* lines 52-57
get_controller_index_by_type(n, ctrl_type, idx) ==
    LET searched == IF idx # {} THEN idx ELSE DOMAIN n.controller
    IN {i \in searched : isinstance(n.controller[i].object, ctrl_type)}

\* lines 60-69 with the names compared as written, whatever case_sensitive is
get_controller_index_by_typename_exact(n, typename, idx, case_sensitive) ==
    LET searched == IF idx # {} THEN idx ELSE DOMAIN n.controller
    IN {i \in searched : FirstToken(n.controller[i].object.str) = typename}

\* lines 60-69
get_controller_index_by_typename(n, typename, idx, case_sensitive) ==
    LET searched == IF idx # {} THEN idx ELSE DOMAIN n.controller
    IN IF case_sensitive
       THEN {i \in searched : FirstToken(n.controller[i].object.str) = typename}
       ELSE {i \in searched :
               lower(FirstToken(n.controller[i].object.str)) = lower(typename)}

\* controller.__getattribute__(key): the attribute, or AttributeError
getattribute(controller, key) ==
    IF key \in DOMAIN controller.dict
    THEN [raised |-> FALSE, value |-> controller.dict[key]]
    ELSE [raised |-> TRUE, value |-> Scalar(0)]

\* lines 78-92 with an absent key passed over instead of ending the call
RECURSIVE QueryLoopSkippingAbsent(_, _, _, _, _)
QueryLoopSkippingAbsent(controller, parameters, k, complete_match, element_index_match) ==
    IF k > Len(parameters)
    THEN [returned |-> FALSE, raised |-> FALSE, complete_match |-> complete_match,
          element_index_match |-> element_index_match]
    ELSE LET key == parameters[k].key
         IN IF key \notin DOMAIN controller.dict
            THEN QueryLoopSkippingAbsent(controller, parameters, k + 1,
                                         complete_match, element_index_match)
            ELSE LET match == AttributeMatch(controller.dict[key], parameters[k].val)
                 IN IF key = "element_index"
                    THEN QueryLoopSkippingAbsent(controller, parameters, k + 1,
                                                 complete_match, match)
                    ELSE QueryLoopSkippingAbsent(controller, parameters, k + 1,
                                                 complete_match /\ match,
                                                 element_index_match)

\* lines 78-92: the loop over parameters.keys() from position k on.  The
\* outcome says whether the loop returned False on an absent key, whether an
\* AttributeError left it, and the two flags.
RECURSIVE QueryLoop(_, _, _, _, _)
QueryLoop(controller, parameters, k, complete_match, element_index_match) ==
    IF k > Len(parameters)
    THEN [returned |-> FALSE, raised |-> FALSE, complete_match |-> complete_match,
          element_index_match |-> element_index_match]
    ELSE LET key == parameters[k].key
             attr == getattribute(controller, key)
         IN IF key \notin DOMAIN controller.dict
            THEN [returned |-> TRUE, raised |-> FALSE,
                  complete_match |-> complete_match,
                  element_index_match |-> element_index_match]
            ELSE IF attr.raised
            THEN [returned |-> FALSE, raised |-> TRUE,
                  complete_match |-> complete_match,
                  element_index_match |-> element_index_match]
            ELSE LET match == AttributeMatch(attr.value, parameters[k].val)
                 IN IF key = "element_index"
                    THEN QueryLoop(controller, parameters, k + 1,
                                   complete_match, match)
                    ELSE QueryLoop(controller, parameters, k + 1,
                                   complete_match /\ match, element_index_match)

\* lines 94-99 without the test of line 97
QueryLogUnconditional(controller, parameters, loop) ==
    IF ~loop.returned /\ ~loop.raised
       /\ loop.complete_match /\ ~loop.element_index_match
    THEN <<[level |-> "info",
            intersect_elms |->
                set(ensure_iterability(
                        getattribute(controller, "element_index").value))
                \cap set(ensure_iterability(Lookup(parameters, "element_index")))]>>
    ELSE <<>>

\* lines 94-99: the info lines the call emits
QueryLog(controller, parameters, loop) ==
    IF ~loop.returned /\ ~loop.raised
       /\ loop.complete_match /\ ~loop.element_index_match
    THEN LET intersect_elms ==
                 set(ensure_iterability(
                         getattribute(controller, "element_index").value))
                 \cap set(ensure_iterability(Lookup(parameters, "element_index")))
         IN IF intersect_elms # {}
            THEN <<[level |-> "info", intersect_elms |-> intersect_elms]>>
            ELSE <<>>
    ELSE <<>>

\* lines 72-101: the value returned, the error raised and the info lines
\* emitted
controller_attributes_query(controller, parameters) ==
    LET loop == QueryLoop(controller, parameters, 1, TRUE, TRUE)
    IN [result |-> IF loop.returned \/ loop.raised THEN FALSE
                   ELSE loop.complete_match /\ loop.element_index_match,
        raised |-> IF loop.raised THEN "AttributeError" ELSE "none",
        log |-> QueryLog(controller, parameters, loop)]

\* lines 136-137: the rows whose column values equal the requested ones
RECURSIVE ColumnQuery(_, _, _, _)
ColumnQuery(n, parameters, df_keys, idx) ==
    IF df_keys = <<>> THEN idx
    ELSE ColumnQuery(n, parameters, Tail(df_keys),
            idx \cap {i \in DOMAIN n.controller :
                        n.controller[i][Head(df_keys)]
                            = Lookup(parameters, Head(df_keys)).val[1]})

\* lines 104-141.  attributes_keys is the list made of the set difference at
\* line 132, in the order the build gives it.
get_controller_index(n, ctrl_type, parameters, idx, attributes_keys) ==
    LET idx0 == IF idx # {} THEN idx ELSE DOMAIN n.controller
        idx1 == IF ctrl_type.kind = "none" THEN idx0
                ELSE IF ctrl_type.kind = "str"
                THEN get_controller_index_by_typename(n, ctrl_type.typename, idx0, FALSE)
                ELSE get_controller_index_by_type(n, ctrl_type.cls, idx0)
    IN IF parameters.isdict
       THEN LET df_keys == SelectSeq([k \in 1..Len(parameters.items) |->
                                          parameters.items[k].key],
                                     LAMBDA key : key \in ControllerColumns)
                attributes_dict ==
                    [k \in 1..Len(attributes_keys) |->
                        [key |-> attributes_keys[k],
                         val |-> Lookup(parameters.items, attributes_keys[k])]]
                idx2 == ColumnQuery(n, parameters.items, df_keys, idx1)
            IN {i \in idx2 : controller_attributes_query(
                                 n.controller[i].object, attributes_dict).result}
       ELSE idx1

\* the orders line 132 can give the attribute keys
AttributesKeys(parameters) ==
    Orderings(keys(parameters.items) \ ControllerColumns)

\* ------------------------------------------------------------- tables
\* the null of a reference column (None / NaN); ids are never negative
Null == -1

\* A transformer table: its index and its columns, each with a dtype and
\* the value of every row.
HasColumn(df, col) == col \in DOMAIN df.columns

\* df[col] = <a column>: the column is added or replaced
SetColumn(df, col, column) ==
    [df EXCEPT !.columns =
        [c \in DOMAIN df.columns \cup {col} |->
            IF c = col THEN column ELSE df.columns[c]]]

\* a characteristic object built from samples
SplineCharacteristic(x_p, y_p) == [x_vals |-> x_p, y_vals |-> y_p]

\* characteristic.add_to_net(net, "characteristic"): the object is appended
\* to the registry under the next free id, which is returned
add_to_net(s, n, element) ==
    LET used == DOMAIN n[element]
        index == IF used = {} THEN 0
                 ELSE (CHOOSE i \in used : \A j \in used : j <= i) + 1
    IN [net |-> [n EXCEPT ![element] =
                    [i \in used \cup {index} |->
                        IF i = index THEN s ELSE n[element][i]]],
        index |-> index]

\* lines 234-236 with every characteristic built from the first samples
RECURSIVE CharacteristicsLoopFirstSamples(_, _, _, _, _, _, _)
CharacteristicsLoopFirstSamples(n, trafotable, col, trafo_index, x_points, y_points, k) ==
    IF k > Len(trafo_index) \/ k > Len(x_points) \/ k > Len(y_points) THEN n
    ELSE LET s == SplineCharacteristic(x_points[1], y_points[1])
             added == add_to_net(s, n, "characteristic")
             written == [added.net EXCEPT
                            ![trafotable].columns[col].data[trafo_index[k]] =
                                added.index]
         IN CharacteristicsLoopFirstSamples(written, trafotable, col, trafo_index,
                                            x_points, y_points, k + 1)

\* lines 234-236 with the id after the returned one written back
RECURSIVE CharacteristicsLoopNextId(_, _, _, _, _, _, _)
CharacteristicsLoopNextId(n, trafotable, col, trafo_index, x_points, y_points, k) ==
    IF k > Len(trafo_index) \/ k > Len(x_points) \/ k > Len(y_points) THEN n
    ELSE LET s == SplineCharacteristic(x_points[k], y_points[k])
             added == add_to_net(s, n, "characteristic")
             written == [added.net EXCEPT
                            ![trafotable].columns[col].data[trafo_index[k]] =
                                added.index + 1]
         IN CharacteristicsLoopNextId(written, trafotable, col, trafo_index,
                                      x_points, y_points, k + 1)

\* lines 234-236: the loop over zip(trafo_index, x_points, y_points), from
\* position k on
RECURSIVE CharacteristicsLoop(_, _, _, _, _, _, _)
CharacteristicsLoop(n, trafotable, col, trafo_index, x_points, y_points, k) ==
    IF k > Len(trafo_index) \/ k > Len(x_points) \/ k > Len(y_points) THEN n
    ELSE LET s == SplineCharacteristic(x_points[k], y_points[k])
             added == add_to_net(s, n, "characteristic")
             written == [added.net EXCEPT
                            ![trafotable].columns[col].data[trafo_index[k]] =
                                added.index]
         IN CharacteristicsLoop(written, trafotable, col, trafo_index,
                                x_points, y_points, k + 1)

\* lines 223-224 alone: the flag column is created when absent, no row is set
FlagRowsColumnOnly(n, trafotable, trafo_index) ==
    IF HasColumn(n[trafotable], "tap_dependent_impedance") THEN n
    ELSE [n EXCEPT ![trafotable] =
             SetColumn(n[trafotable], "tap_dependent_impedance",
                 [dtype |-> "bool",
                  data |-> [i \in n[trafotable].index |-> FALSE]])]

\* lines 223-226: the flag column is created when absent, then set for the
\* rows of trafo_index
FlagRows(n, trafotable, trafo_index) ==
    LET df == n[trafotable]
        flagged == IF HasColumn(df, "tap_dependent_impedance") THEN df
                   ELSE SetColumn(df, "tap_dependent_impedance",
                            [dtype |-> "bool", data |-> [i \in df.index |-> FALSE]])
    IN [n EXCEPT ![trafotable] =
           [flagged EXCEPT !.columns["tap_dependent_impedance"].data =
               [i \in df.index |->
                   IF \E k \in 1..Len(trafo_index) : trafo_index[k] = i THEN TRUE
                   ELSE flagged.columns["tap_dependent_impedance"].data[i]]]]

\* lines 229-232 with a column of another dtype made anew instead of cast
ObjectColumnRecreated(n, trafotable, col) ==
    LET df == n[trafotable]
    IN IF ~HasColumn(df, col) \/ df.columns[col].dtype # "object"
       THEN [n EXCEPT ![trafotable] =
                SetColumn(df, col, [dtype |-> "object",
                                    data |-> [i \in df.index |-> Null]])]
       ELSE n

\* lines 229-232: the reference column is created with nulls when absent and
\* cast to object when it has another dtype
ObjectColumn(n, trafotable, col) ==
    LET df == n[trafotable]
    IN IF ~HasColumn(df, col)
       THEN [n EXCEPT ![trafotable] =
                SetColumn(df, col, [dtype |-> "object",
                                    data |-> [i \in df.index |-> Null]])]
       ELSE IF df.columns[col].dtype # "object"
       THEN [n EXCEPT ![trafotable].columns[col].dtype = "object"]
       ELSE n

\* lines 219-236 with the lengths compared after the flag rows are written
create_trafo_characteristics_late_check(n, trafotable, trafo_index, variable, x_points, y_points) ==
    IF Len(trafo_index) # Len(x_points) \/ Len(trafo_index) # Len(y_points)
    THEN [net |-> [n EXCEPT ![trafotable] =
                      SetColumn(n[trafotable], "tap_dependent_impedance",
                          [dtype |-> "bool",
                           data |-> [i \in n[trafotable].index |->
                               \E k \in 1..Len(trafo_index) : trafo_index[k] = i]])],
          raised |-> "UserWarning"]
    ELSE [net |-> n, raised |-> "none"]

\* lines 219-236: the network after the call and the error it ended in.
\* .loc[trafo_index, ...] = True raises KeyError on a label that is no row,
\* after line 224 has run.
create_trafo_characteristics(n, trafotable, trafo_index, variable, x_points, y_points) ==
    IF Len(trafo_index) # Len(x_points) \/ Len(trafo_index) # Len(y_points)
    THEN [net |-> n, raised |-> "UserWarning"]
    ELSE IF \E k \in 1..Len(trafo_index) : trafo_index[k] \notin n[trafotable].index
    THEN [net |-> IF HasColumn(n[trafotable], "tap_dependent_impedance") THEN n
                  ELSE FlagRows(n, trafotable, <<>>),
          raised |-> "KeyError"]
    ELSE LET col == variable \o "_characteristic"
             prepared == ObjectColumn(FlagRows(n, trafotable, trafo_index),
                                      trafotable, col)
         IN [net |-> CharacteristicsLoop(prepared, trafotable, col, trafo_index,
                                         x_points, y_points, 1),
             raised |-> "none"]

\* lines 241-242
cols2w == <<"vk_percent_characteristic", "vkr_percent_characteristic">>

sides == <<"hv", "mv", "lv">>

cols3w ==
    [k \in 1..6 |->
        "vk" \o (IF k % 2 = 1 THEN "" ELSE "r") \o "_" \o sides[(k + 1) \div 2]
             \o "_percent_characteristic"]

\* lines 250-251: the rows with tap-dependent impedance
TapDependent(df) ==
    {i \in df.index : df.columns["tap_dependent_impedance"].data[i]}

\* lines 253-262 with the registry looked up before the nulls
ColumnCheckInvalidFirst(n, trafo_table, col) ==
    LET df == n[trafo_table]
    IN IF ~HasColumn(df, col) THEN "is missing"
       ELSE IF df.columns[col].dtype # "object" THEN "is not of type object"
       ELSE IF {df.columns[col].data[i] : i \in TapDependent(df)}
                    \ DOMAIN n.characteristic # {}
       THEN "contains invalid characteristics indices"
       ELSE IF \E i \in TapDependent(df) : df.columns[col].data[i] = Null
       THEN "is missing for some trafos"
       ELSE "has characteristics"

\* lines 253-262: the one line logged for column col of a table with
\* tap-dependent rows
ColumnCheck(n, trafo_table, col) ==
    LET df == n[trafo_table]
    IN IF ~HasColumn(df, col) THEN "is missing"
       ELSE IF df.columns[col].dtype # "object" THEN "is not of type object"
       ELSE IF \E i \in TapDependent(df) : df.columns[col].data[i] = Null
       THEN "is missing for some trafos"
       ELSE IF {df.columns[col].data[i] : i \in TapDependent(df)}
                    \ DOMAIN n.characteristic # {}
       THEN "contains invalid characteristics indices"
       ELSE "has characteristics"

\* line 262: len(net[trafo_table][col].dropna())
ColumnCount(n, trafo_table, col) ==
    IF ColumnCheck(n, trafo_table, col) = "has characteristics"
    THEN Cardinality({i \in n[trafo_table].index :
                        n[trafo_table].columns[col].data[i] # Null})
    ELSE 0

\* lines 244-262: the lines logged for one table
TableCheck(n, trafo_table, cols) ==
    LET df == n[trafo_table]
    IN IF df.index = {}
          \/ ~HasColumn(df, "tap_dependent_impedance")
          \/ ~\E i \in df.index : df.columns["tap_dependent_impedance"].data[i]
       THEN <<[table |-> trafo_table, col |-> "", count |-> 0,
               msg |-> "No trafo with tap-dependent impedance found."]>>
       ELSE <<[table |-> trafo_table, col |-> "",
               count |-> Cardinality(TapDependent(df)),
               msg |-> "found trafos with tap-dependent impedance"]>>
            \o [k \in 1..Len(cols) |->
                  [table |-> trafo_table, col |-> cols[k],
                   count |-> ColumnCount(n, trafo_table, cols[k]),
                   msg |-> ColumnCheck(n, trafo_table, cols[k])]]

\* lines 239-262: the lines logged after "Checking trafo characteristics"
trafo_characteristics_diagnostic(n) ==
    TableCheck(n, "trafo", cols2w) \o TableCheck(n, "trafo3w", cols3w)

\* ------------------------------------------------------------- policies
\* lines 161-171: the lines logged; the collection is left as it is
log_same_type_existing_controllers(n, this_ctrl_type, matching_params, attributes_keys) ==
    IF matching_params.isdict
    THEN LET same_type_existing_ctrl ==
                 get_controller_index(n, this_ctrl_type, matching_params, {},
                                      attributes_keys)
         IN IF same_type_existing_ctrl # {}
            THEN <<[level |-> "info", msg |-> "has same type and matching parameters",
                    controllers |-> same_type_existing_ctrl]>>
            ELSE <<>>
    ELSE <<[level |-> "info", msg |-> "Creating controller", controllers |-> {}],
           [level |-> "debug", msg |-> "no matching parameters are given",
            controllers |-> {}]>>

\* lines 191-203 with the search made by type alone
drop_same_type_ignoring_params(n, this_ctrl_type, matching_params, attributes_keys) ==
    IF matching_params.isdict
    THEN LET same_type_existing_ctrl ==
                 get_controller_index(n, this_ctrl_type, NoParameters, {}, <<>>)
         IN IF same_type_existing_ctrl # {}
            THEN [net |-> [n EXCEPT !.controller =
                             [i \in DOMAIN n.controller \ same_type_existing_ctrl |->
                                 n.controller[i]]],
                  log |-> <<[level |-> "debug", msg |-> "got removed",
                             controllers |-> same_type_existing_ctrl]>>]
            ELSE [net |-> n, log |-> <<>>]
    ELSE [net |-> n,
          log |-> <<[level |-> "info", msg |-> "Creating controller",
                     controllers |-> {}]>>]

\* lines 191-203: the network after the call and the lines logged
drop_same_type_existing_controllers(n, this_ctrl_type, matching_params, attributes_keys) ==
    IF matching_params.isdict
    THEN LET same_type_existing_ctrl ==
                 get_controller_index(n, this_ctrl_type, matching_params, {},
                                      attributes_keys)
         IN IF same_type_existing_ctrl # {}
            THEN [net |-> [n EXCEPT !.controller =
                             [i \in DOMAIN n.controller \ same_type_existing_ctrl |->
                                 n.controller[i]]],
                  log |-> <<[level |-> "debug", msg |-> "got removed",
                             controllers |-> same_type_existing_ctrl]>>]
            ELSE [net |-> n, log |-> <<>>]
    ELSE [net |-> n,
          log |-> <<[level |-> "info", msg |-> "Creating controller",
                     controllers |-> {}]>>]

\* ------------------------------------------------------------- networks
TrafoIds == {0, 1}

XSamples == {<<0, 1>>, <<0, 2>>}

YSamples == {<<5, 6>>}

\* the lists of at most MaxLen elements of S
Lists(S) == UNION {[1..n -> S] : n \in 0..MaxLen}

\* a transformer table with its electrical column only
BareTable(index) ==
    [index |-> index,
     columns |-> ("vk_percent" :> [dtype |-> "float64",
                                   data |-> [i \in index |-> 10]])]

\* the flag columns a table starts with: absent, all false, or true for
\* row 0 only
FlagColumns(index) ==
    {[present |-> p, data |-> [i \in index |-> t /\ i = 0]] :
        p \in BOOLEAN, t \in BOOLEAN} \ {[present |-> FALSE,
                                        data |-> [i \in index |-> i = 0]]}

\* the reference columns a table starts with: absent, or a column of dtype
\* object or float64 that is null but for row 0, which holds one of refs
ReferenceColumns(index, refs) ==
    {[present |-> FALSE, dtype |-> "object", data |-> [i \in index |-> Null]]}
    \cup {[present |-> TRUE, dtype |-> t,
           data |-> [i \in index |-> IF i = 0 THEN r ELSE Null]] :
            t \in {"object", "float64"}, r \in refs}

WithColumns(df, flag, col, ref) ==
    LET flagged == IF flag.present
                   THEN SetColumn(df, "tap_dependent_impedance",
                                  [dtype |-> "bool", data |-> flag.data])
                   ELSE df
    IN IF ref.present
       THEN SetColumn(flagged, col, [dtype |-> ref.dtype, data |-> ref.data])
       ELSE flagged

\* the two-winding tables over rows 0 and 1 whose references are among refs
TrafoTables(refs) ==
    {WithColumns(BareTable(TrafoIds), flag, "vk_percent_characteristic", ref) :
        flag \in FlagColumns(TrafoIds), ref \in ReferenceColumns(TrafoIds, refs)}

\* the three-winding tables: empty, or one row
Trafo3wTables == {BareTable({}), BareTable({0})}

InitialRegistry == 0 :> SplineCharacteristic(<<0, 1>>, <<5, 6>>)

\* the controller collections of n rows
ControllerTables(n) == [0..(n - 1) -> ControllerRows]

TwoControllers ==
    [i \in 0..1 |->
        [object |-> CHOOSE o \in ControllerObjects :
                        o.cls = "ConstControl" /\ Len(o.str) = 2 * (i + 1),
         in_service |-> i, order |-> 0]]

\* ------------------------------------------------------------- calls
\* no call is under way: the caller may make the next one
NoCall == [op |-> "none"]

Idle == call.op = "none"

GetControllerIndex(types, params) ==
    /\ Idle
    /\ \E ctrl_type \in types, parameters \in params,
       idx \in SUBSET DOMAIN net.controller :
        \E attributes_keys \in AttributesKeys(parameters) :
            /\ call' = [op |-> "get_controller_index", ctrl_type |-> ctrl_type,
                        parameters |-> parameters, idx |-> idx,
                        result |-> get_controller_index(net, ctrl_type, parameters,
                                                        idx, attributes_keys)]
            /\ pre' = net
            /\ net' = net

ControllerAttributesQuery(dicts) ==
    /\ Idle
    /\ \E i \in DOMAIN net.controller, parameters \in dicts :
        LET controller == net.controller[i].object
            out == controller_attributes_query(controller, parameters)
        IN /\ call' = [op |-> "controller_attributes_query",
                       controller |-> controller, parameters |-> parameters,
                       result |-> out.result, raised |-> out.raised,
                       log |-> out.log]
           /\ pre' = net
           /\ net' = net

LogSameTypeExistingControllers(types, params) ==
    /\ Idle
    /\ \E this_ctrl_type \in types, matching_params \in params :
        \E attributes_keys \in AttributesKeys(matching_params) :
            /\ call' = [op |-> "log_same_type_existing_controllers",
                        this_ctrl_type |-> this_ctrl_type,
                        matching_params |-> matching_params,
                        log |-> log_same_type_existing_controllers(
                                    net, this_ctrl_type, matching_params,
                                    attributes_keys)]
            /\ pre' = net
            /\ net' = net

DropSameTypeExistingControllers(types, params) ==
    /\ Idle
    /\ \E this_ctrl_type \in types, matching_params \in params :
        \E attributes_keys \in AttributesKeys(matching_params) :
            LET out == drop_same_type_existing_controllers(
                           net, this_ctrl_type, matching_params, attributes_keys)
            IN /\ call' = [op |-> "drop_same_type_existing_controllers",
                           this_ctrl_type |-> this_ctrl_type,
                           matching_params |-> matching_params,
                           log |-> out.log]
               /\ pre' = net
               /\ net' = out.net

Variables(trafotable) ==
    IF trafotable = "trafo" THEN {"vk_percent", "vkr_percent"}
    ELSE {"vk_hv_percent"}

CreateTrafoCharacteristics(xs, ys) ==
    /\ Idle
    /\ \E trafotable \in {"trafo", "trafo3w"}, trafo_index \in Lists(TrafoIds),
       x_points \in Lists(xs), y_points \in Lists(ys) :
        \E variable \in Variables(trafotable) :
            LET out == create_trafo_characteristics(net, trafotable, trafo_index,
                                                    variable, x_points, y_points)
            IN /\ Cardinality(DOMAIN out.net.characteristic) <= MaxChar
               /\ call' = [op |-> "create_trafo_characteristics",
                           trafotable |-> trafotable, trafo_index |-> trafo_index,
                           variable |-> variable, x_points |-> x_points,
                           y_points |-> y_points, raised |-> out.raised]
               /\ pre' = net
               /\ net' = out.net

TrafoCharacteristicsDiagnostic ==
    /\ Idle
    /\ call' = [op |-> "trafo_characteristics_diagnostic",
                log |-> trafo_characteristics_diagnostic(net)]
    /\ pre' = net
    /\ net' = net

\* the call returns to its caller, which keeps nothing of it
Return ==
    /\ ~Idle
    /\ call' = NoCall
    /\ pre' = net
    /\ net' = net

\* ------------------------------------------------------------- specifications
\* the controller functions on every collection of at most MaxCtrl rows
InitControllers ==
    /\ net \in {[controller |-> c, trafo |-> BareTable(TrafoIds),
                 trafo3w |-> BareTable({}), characteristic |-> InitialRegistry] :
                    c \in UNION {ControllerTables(n) : n \in 0..MaxCtrl}}
    /\ pre = net
    /\ call = NoCall

NextControllers ==
    \/ GetControllerIndex(CtrlTypes, ParametersArgs)
    \/ ControllerAttributesQuery(Dicts(AttributeKeys))
    \/ LogSameTypeExistingControllers(CtrlTypes, ParametersArgs)
    \/ DropSameTypeExistingControllers(CtrlTypes, ParametersArgs)
    \/ Return

SpecControllers == InitControllers /\ [][NextControllers]_vars

\* the characteristic functions on transformer tables whose references may
\* dangle (id 7 is never registered)
InitTrafos ==
    /\ net \in {[controller |-> <<>>, trafo |-> t, trafo3w |-> t3,
                 characteristic |-> InitialRegistry] :
                    t \in TrafoTables({0, 7}), t3 \in Trafo3wTables}
    /\ pre = net
    /\ call = NoCall

NextTrafos ==
    \/ CreateTrafoCharacteristics(XSamples, YSamples)
    \/ TrafoCharacteristicsDiagnostic
    \/ Return

SpecTrafos == InitTrafos /\ [][NextTrafos]_vars

\* every function of the file, on networks whose references all resolve
Init ==
    /\ net \in {[controller |-> TwoControllers, trafo |-> t, trafo3w |-> t3,
                 characteristic |-> InitialRegistry] :
                    t \in TrafoTables({0}), t3 \in Trafo3wTables}
    /\ pre = net
    /\ call = NoCall

Next ==
    \/ GetControllerIndex({NoType}, {NoParameters})
    \/ ControllerAttributesQuery({<<>>})
    \/ LogSameTypeExistingControllers({NoType}, {NoParameters})
    \/ DropSameTypeExistingControllers(
           {NoType, StrType(<<"C", "C">>)},
           {NoParameters, [isdict |-> TRUE,
                           items |-> <<[key |-> "in_service", val |-> Scalar(1)]>>]})
    \/ CreateTrafoCharacteristics({<<0, 1>>}, {<<5, 6>>})
    \/ TrafoCharacteristicsDiagnostic
    \/ Return

Spec == Init /\ [][Next]_vars

\* ------------------------------------------------------------- claims
\* the set get_controller_index searches
Searched == IF call.idx # {} THEN call.idx ELSE DOMAIN pre.controller

\* (1) the controller at i is of the type asked for
TypeHolds(i) ==
    LET obj == pre.controller[i].object
    IN CASE call.ctrl_type.kind = "none" -> TRUE
         [] call.ctrl_type.kind = "class" -> call.ctrl_type.cls \in Mro(obj.cls)
         [] call.ctrl_type.kind = "str" ->
               lower(FirstToken(obj.str)) = lower(call.ctrl_type.typename)

\* (2) every key of P that is a column has the value asked for in row i
ColumnsHold(i) ==
    \A k \in 1..Len(call.parameters.items) :
        LET item == call.parameters.items[k]
        IN item.key \in ControllerColumns =>
               pre.controller[i][item.key] = item.val.val[1]

\* (3) the attribute query is true for the other keys of P, in any order
AttributesHold(i) ==
    LET others == {k \in 1..Len(call.parameters.items) :
                     call.parameters.items[k].key \notin ControllerColumns}
    IN \A q \in Orderings(others) :
           controller_attributes_query(
               pre.controller[i].object,
               [j \in 1..Len(q) |-> call.parameters.items[q[j]]]).result

\* C1: get_controller_index returns exactly the indices of the searched set
\* (idx when non-empty, otherwise every index) whose controller is of the
\* type asked for, whose row has the column values asked for and whose
\* attributes satisfy the attribute query on the remaining keys.
C1_ExactIndices ==
    call.op = "get_controller_index" =>
        call.result =
            {i \in Searched :
                /\ TypeHolds(i)
                /\ call.parameters.isdict => ColumnsHold(i) /\ AttributesHold(i)}

C1_Witness ==
    /\ call.op = "get_controller_index"
    /\ call.ctrl_type.kind = "str"
    /\ call.ctrl_type.typename = <<"C", "C">>
    /\ call.parameters.isdict
    /\ keys(call.parameters.items) = {"in_service", "element_index"}
    /\ call.idx # {}
    /\ call.result # {}
    /\ \E j \in DOMAIN pre.controller \ call.idx :
           TypeHolds(j) /\ ColumnsHold(j) /\ AttributesHold(j)

\* C2: drop_same_type_existing_controllers with a matching_params dict removes
\* exactly the rows get_controller_index returns for the type and the
\* parameters and leaves every other row as it was; without a dict it
\* removes no row.
C2_DropsExactlyMatches ==
    call.op = "drop_same_type_existing_controllers" =>
        LET removed == DOMAIN pre.controller \ DOMAIN net.controller
        IN /\ DOMAIN net.controller \subseteq DOMAIN pre.controller
           /\ \A i \in DOMAIN net.controller : net.controller[i] = pre.controller[i]
           /\ call.matching_params.isdict =>
                  \A q \in AttributesKeys(call.matching_params) :
                      removed = get_controller_index(pre, call.this_ctrl_type,
                                                     call.matching_params, {}, q)
           /\ ~call.matching_params.isdict => removed = {}

C2_Witness ==
    /\ call.op = "drop_same_type_existing_controllers"
    /\ call.matching_params.isdict
    /\ call.matching_params.items # <<>>
    /\ DOMAIN net.controller # {}
    /\ DOMAIN net.controller # DOMAIN pre.controller
    /\ \E i \in DOMAIN net.controller :
           isinstance(pre.controller[i].object, "ConstControl")
           /\ call.this_ctrl_type = ClassType("ConstControl")

\* some key of the parameters is no attribute of the controller
SomeKeyAbsent ==
    \E k \in 1..Len(call.parameters) :
        call.parameters[k].key \notin DOMAIN call.controller.dict

\* C7: _controller_attributes_query returns false and raises nothing whenever
\* a key of the parameters is no attribute of the controller, whatever the
\* other keys are and wherever the absent key stands.
C7_AbsentKeyIsNoMatch ==
    (call.op = "controller_attributes_query" /\ SomeKeyAbsent) =>
        (call.result = FALSE /\ call.raised = "none")

C7_Witness ==
    /\ call.op = "controller_attributes_query"
    /\ Len(call.parameters) = 2
    /\ call.parameters[1].key \in DOMAIN call.controller.dict
    /\ AttributeMatch(call.controller.dict[call.parameters[1].key],
                      call.parameters[1].val)
    /\ call.parameters[2].key \notin DOMAIN call.controller.dict
    /\ call.result = FALSE

\* every key of the parameters is an attribute of the controller
AllKeysPresent ==
    \A k \in 1..Len(call.parameters) :
        call.parameters[k].key \in DOMAIN call.controller.dict

\* every key other than element_index matches
OtherKeysMatch ==
    \A k \in 1..Len(call.parameters) :
        call.parameters[k].key # "element_index" =>
            AttributeMatch(call.controller.dict[call.parameters[k].key],
                           call.parameters[k].val)

\* element_index is asked for and does not match
ElementIndexMismatch ==
    \E k \in 1..Len(call.parameters) :
        /\ call.parameters[k].key = "element_index"
        /\ ~AttributeMatch(call.controller.dict["element_index"],
                           call.parameters[k].val)

\* the elements the requested and the actual element_index share
Overlap ==
    set(call.controller.dict["element_index"])
    \cap set(Lookup(call.parameters, "element_index"))

\* C8 as stated: with every key present, a mismatch of element_index alone
\* gives false and an info line reporting the overlap; a match of every key
\* gives true and no line; the result is (others match) and (element_index
\* matches).
C8_Original ==
    (call.op = "controller_attributes_query" /\ AllKeysPresent) =>
        /\ call.result = (OtherKeysMatch /\ ~ElementIndexMismatch)
        /\ (OtherKeysMatch /\ ElementIndexMismatch) =>
               (call.result = FALSE /\ Len(call.log) = 1)
        /\ (OtherKeysMatch /\ ~ElementIndexMismatch) =>
               (call.result = TRUE /\ call.log = <<>>)

\* C8 as amended: the info line is emitted exactly when element_index alone
\* mismatches and the requested and actual values share an element, and it
\* reports the shared elements; nothing is logged when they share none.
C8_LogOnlyOnOverlap ==
    (call.op = "controller_attributes_query" /\ AllKeysPresent) =>
        /\ call.result = (OtherKeysMatch /\ ~ElementIndexMismatch)
        /\ (OtherKeysMatch /\ ElementIndexMismatch /\ Overlap # {}) =>
               (call.result = FALSE
                /\ call.log = <<[level |-> "info", intersect_elms |-> Overlap]>>)
        /\ (OtherKeysMatch /\ ElementIndexMismatch /\ Overlap = {}) =>
               (call.result = FALSE /\ call.log = <<>>)
        /\ ~(OtherKeysMatch /\ ElementIndexMismatch) => call.log = <<>>

C8_Witness ==
    /\ call.op = "controller_attributes_query"
    /\ AllKeysPresent
    /\ Len(call.parameters) = 2
    /\ OtherKeysMatch
    /\ ElementIndexMismatch
    /\ Overlap # {}
    /\ Len(call.log) = 1

\* the reference column a create_trafo_characteristics call writes
Col == call.variable \o "_characteristic"

\* the rows a create_trafo_characteristics call names
Named == {call.trafo_index[k] : k \in 1..Len(call.trafo_index)}

LengthsDiffer ==
    \/ Len(call.trafo_index) # Len(call.x_points)
    \/ Len(call.trafo_index) # Len(call.y_points)

\* three lists of one length whose transformer ids are rows of the table
WellFormed == ~LengthsDiffer /\ Named \subseteq pre[call.trafotable].index

\* C3: a create_trafo_characteristics call whose three lists differ in
\* length ends in the validation error and leaves the transformer tables
\* and the registry exactly as they were.
C3_MismatchWritesNothing ==
    (call.op = "create_trafo_characteristics" /\ LengthsDiffer) =>
        (call.raised = "UserWarning" /\ net = pre)

C3_Witness ==
    /\ call.op = "create_trafo_characteristics"
    /\ Len(call.trafo_index) = 2
    /\ Len(call.x_points) = 2
    /\ Len(call.y_points) = 1
    /\ Named \subseteq pre[call.trafotable].index
    /\ ~HasColumn(pre[call.trafotable], "tap_dependent_impedance")
    /\ call.raised = "UserWarning"

\* the registry ids a call added
Registered == DOMAIN net.characteristic \ DOMAIN pre.characteristic

\* C4: after a call with three equal-length lists whose ids are rows of the
\* table, every named row has tap_dependent_impedance true, the registry has
\* gained exactly len(trafo_index) entries, every named row holds an id this
\* call registered, and rows of different ids hold different ids.
C4_RowsFlaggedAndRegistered ==
    (call.op = "create_trafo_characteristics" /\ WellFormed) =>
        LET df == net[call.trafotable]
        IN /\ call.raised = "none"
           /\ \A i \in Named : df.columns["tap_dependent_impedance"].data[i]
           /\ DOMAIN pre.characteristic \subseteq DOMAIN net.characteristic
           /\ Cardinality(Registered) = Len(call.trafo_index)
           /\ \A i \in Named : df.columns[Col].data[i] \in Registered
           /\ \A i, j \in Named :
                  i # j => df.columns[Col].data[i] # df.columns[Col].data[j]

C4_Witness ==
    /\ call.op = "create_trafo_characteristics"
    /\ WellFormed
    /\ call.trafotable = "trafo"
    /\ Cardinality(Named) = 2
    /\ ~HasColumn(pre.trafo, "tap_dependent_impedance")
    /\ Cardinality(Registered) = 2

\* every reference of the table resolves in the registry
TableResolves(n, df) ==
    \A c \in DOMAIN df.columns \ {"vk_percent", "tap_dependent_impedance"} :
        \A i \in df.index :
            df.columns[c].data[i] # Null =>
                df.columns[c].data[i] \in DOMAIN n.characteristic

\* every registry entry of n is an entry of m, unchanged
RegistryKept(n, m) ==
    \A id \in DOMAIN n.characteristic :
        id \in DOMAIN m.characteristic
        /\ m.characteristic[id] = n.characteristic[id]

\* C5: from a network whose references all resolve, after any calls of the
\* functions of the file every non-null reference of trafo and trafo3w still
\* resolves in the registry, and no entry the registry held before a call
\* is gone or replaced after it.
C5_ReferencesResolve ==
    /\ TableResolves(net, net.trafo)
    /\ TableResolves(net, net.trafo3w)
    /\ RegistryKept(pre, net)

C5_Witness ==
    /\ call.op = "create_trafo_characteristics"
    /\ call.raised = "none"
    /\ Len(call.trafo_index) = 2
    /\ HasColumn(pre[call.trafotable], Col)
    /\ \E i \in pre[call.trafotable].index :
           pre[call.trafotable].columns[Col].data[i] # Null
    /\ DOMAIN net.controller # DOMAIN TwoControllers

\* the characteristic position k of a call asks for
Asked(k) == SplineCharacteristic(call.x_points[k], call.y_points[k])

\* the registry entry the row of position k refers to after the call
Stored(k) ==
    net.characteristic[net[call.trafotable].columns[Col].data[call.trafo_index[k]]]

\* C6 as stated: after the call, for every position k the registry entry
\* referred to by row trafo_index[k] is the characteristic built from
\* (x_points[k], y_points[k]).
C6_Original ==
    (call.op = "create_trafo_characteristics" /\ WellFormed) =>
        \A k \in 1..Len(call.trafo_index) : Stored(k) = Asked(k)

\* C6 as amended: the round trip holds for every position k whose transformer
\* id does not stand again at a later position; a repeated id refers to the
\* characteristic of its last position.
C6_RoundTripOfLastPosition ==
    (call.op = "create_trafo_characteristics" /\ WellFormed) =>
        \A k \in 1..Len(call.trafo_index) :
            (\A j \in (k + 1)..Len(call.trafo_index) :
                 call.trafo_index[j] # call.trafo_index[k])
            => Stored(k) = Asked(k)

C6_Witness ==
    /\ call.op = "create_trafo_characteristics"
    /\ WellFormed
    /\ Len(call.trafo_index) = 2
    /\ call.trafo_index[1] # call.trafo_index[2]
    /\ call.x_points[1] # call.x_points[2]
    /\ Stored(1) = Asked(1)
    /\ Stored(2) = Asked(2)

\* the columns the diagnostic expects
Expected(trafo_table) ==
    IF trafo_table = "trafo"
    THEN {"vk_percent_characteristic", "vkr_percent_characteristic"}
    ELSE {"vk_hv_percent_characteristic", "vkr_hv_percent_characteristic",
          "vk_mv_percent_characteristic", "vkr_mv_percent_characteristic",
          "vk_lv_percent_characteristic", "vkr_lv_percent_characteristic"}

\* the table is empty, has no flag column or has it false in every row
NoTapDependent(df) ==
    \/ df.index = {}
    \/ ~HasColumn(df, "tap_dependent_impedance")
    \/ \A i \in df.index : ~df.columns["tap_dependent_impedance"].data[i]

Missing(df, c) == ~HasColumn(df, c)

NotObject(df, c) == HasColumn(df, c) /\ df.columns[c].dtype # "object"

HasNull(df, c) ==
    HasColumn(df, c)
    /\ \E i \in df.index : /\ df.columns["tap_dependent_impedance"].data[i]
                           /\ df.columns[c].data[i] = Null

HasInvalid(df, c) ==
    HasColumn(df, c)
    /\ \E i \in df.index : /\ df.columns["tap_dependent_impedance"].data[i]
                           /\ df.columns[c].data[i] \notin DOMAIN pre.characteristic

\* the positions of the log lines about column c of a table
LinesAbout(trafo_table, c) ==
    {k \in 1..Len(call.log) :
        call.log[k].table = trafo_table /\ call.log[k].col = c}

\* the positions of the log lines about a table
LinesOf(trafo_table) ==
    {k \in 1..Len(call.log) : call.log[k].table = trafo_table}

\* the line about column c reports the first outcome that applies
FirstOutcome(df, c, msg) ==
    /\ msg = "is missing" <=> Missing(df, c)
    /\ msg = "is not of type object" <=> NotObject(df, c)
    /\ msg = "is missing for some trafos" <=>
           (~Missing(df, c) /\ ~NotObject(df, c) /\ HasNull(df, c))
    /\ msg = "contains invalid characteristics indices" <=>
           (~Missing(df, c) /\ ~NotObject(df, c) /\ ~HasNull(df, c)
            /\ HasInvalid(df, c))
    /\ msg = "has characteristics" <=>
           (~Missing(df, c) /\ ~NotObject(df, c) /\ ~HasNull(df, c)
            /\ ~HasInvalid(df, c))

\* C9: trafo_characteristics_diagnostic changes nothing; for a table that is
\* empty, has no flag column or has it false everywhere it logs the one
\* "no tap-dependent impedance" line and checks no column; otherwise it logs
\* for each expected column (2 for trafo, 6 for trafo3w) exactly one outcome,
\* the first of: missing, not object, null among the tap-dependent rows,
\* unregistered id among them, success.
C9_DiagnosticDecisionList ==
    call.op = "trafo_characteristics_diagnostic" =>
        /\ net = pre
        /\ \A t \in {"trafo", "trafo3w"} :
               IF NoTapDependent(pre[t])
               THEN /\ Cardinality(LinesOf(t)) = 1
                    /\ \A k \in LinesOf(t) :
                           call.log[k].msg =
                               "No trafo with tap-dependent impedance found."
               ELSE /\ Cardinality(LinesOf(t)) = 1 + Cardinality(Expected(t))
                    /\ \A c \in Expected(t) :
                           /\ Cardinality(LinesAbout(t, c)) = 1
                           /\ \A k \in LinesAbout(t, c) :
                                  FirstOutcome(pre[t], c, call.log[k].msg)

C9_Witness ==
    /\ call.op = "trafo_characteristics_diagnostic"
    /\ ~NoTapDependent(pre.trafo)
    /\ ~NoTapDependent(pre.trafo3w)
    /\ \E k \in LinesAbout("trafo", "vk_percent_characteristic") :
           call.log[k].msg = "contains invalid characteristics indices"
    /\ \E k \in LinesAbout("trafo", "vkr_percent_characteristic") :
           call.log[k].msg = "is missing for some trafos"
    /\ \E k \in LinesAbout("trafo3w", "vk_hv_percent_characteristic") :
           call.log[k].msg = "has characteristics"

\* the table a create_trafo_characteristics call does not name
OtherTable == IF call.trafotable = "trafo" THEN "trafo3w" ELSE "trafo"

\* the value of column c in row i before the call, def when c was absent
Before(c, i, def) ==
    IF HasColumn(pre[call.trafotable], c)
    THEN pre[call.trafotable].columns[c].data[i]
    ELSE def

\* C10: a successful create_trafo_characteristics call leaves, in the rows it
\* does not name, the flag as it was (false where the column is new) and the
\* reference as it was (null where the column is new); it changes no other
\* column, nor the other transformer table, nor the controller collection,
\* nor any registry entry that existed.
C10_FrameOfSuccess ==
    (call.op = "create_trafo_characteristics" /\ WellFormed) =>
        LET old == pre[call.trafotable]
            new == net[call.trafotable]
        IN /\ new.index = old.index
           /\ DOMAIN new.columns =
                  DOMAIN old.columns \cup {"tap_dependent_impedance", Col}
           /\ \A i \in old.index \ Named :
                  /\ new.columns["tap_dependent_impedance"].data[i]
                         = Before("tap_dependent_impedance", i, FALSE)
                  /\ new.columns[Col].data[i] = Before(Col, i, Null)
           /\ \A c \in DOMAIN old.columns \ {"tap_dependent_impedance", Col} :
                  new.columns[c] = old.columns[c]
           /\ net[OtherTable] = pre[OtherTable]
           /\ net.controller = pre.controller
           /\ RegistryKept(pre, net)

C10_Witness ==
    /\ call.op = "create_trafo_characteristics"
    /\ WellFormed
    /\ HasColumn(pre[call.trafotable], Col)
    /\ pre[call.trafotable].columns[Col].dtype = "float64"
    /\ \E i \in pre[call.trafotable].index \ Named :
           /\ pre[call.trafotable].columns[Col].data[i] # Null
           /\ net[call.trafotable].columns[Col].data[i]
                  = pre[call.trafotable].columns[Col].data[i]
    /\ Named # {}

====
